---- MODULE Spec2Model ----
(***************************************************************************)
(* Kruskal's minimum spanning tree over a union-find forest, as written in *)
(* src/algorithms/thirteenAlgorithms/kruskal.py (class Graph).             *)
(*                                                                         *)
(* A behaviour is: Graph(v) is constructed, add_edge is called some number *)
(* of times, then kruskalMST runs.  kruskalMST is cut at the head of its   *)
(* while loop and after the two find calls, so that the loop invariant and *)
(* the arguments of union are states of the model.                         *)
(*                                                                         *)
(* Python lists are modelled as sequences; position k of a sequence holds  *)
(* the element of index k-1.  Indexing follows Python: an index in         *)
(* -len..-1 counts from the end, any index outside -len..len-1 raises      *)
(* IndexError.                                                             *)
(***************************************************************************)
EXTENDS Integers, Sequences, FiniteSets

\* ------------------------------------------------------------- bounds
\* Spec: the largest vertex count and the longest edge list.
MaxV == 3
MaxEdges == 2
\* SpecCycles: the longest edge list (long enough for a triangle).
CycleEdges == 3
\* SpecAny: the largest vertex count.
AnyMaxV == 2
\* SpecDeep: the vertex count and the longest edge list (enough for a tree of height 2).
DeepV == 5
DeepEdges == 4

Weights == {-1, 0, 1}
AnyWeights == {0, 1}
DeepWeights == {0}

\* ------------------------------------------------------------- state
VARIABLES
    v,             \* self.v
    graph,         \* self.graph: sequence of <<u, v, w>>
    given,         \* the edge list as the caller left it when kruskalMST was called
    pc,            \* "build", "loop", "found", "done", or the exception that ended the call
    mst,           \* mst
    parent,        \* parent
    rank,          \* rank
    i,             \* i
    e,             \* e
    uvw,           \* the locals u, v, w of the loop body
    x,             \* x
    y,             \* y
    minimum_cost   \* minimum_cost

vars == <<v, graph, given, pc, mst, parent, rank, i, e, uvw, x, y, minimum_cost>>

\* ------------------------------------------------------------- Python lists
\* list[k] is defined (does not raise IndexError)
InRange(list, k) == -Len(list) <= k /\ k < Len(list)

\* list[k]
Get(list, k) == IF k >= 0 THEN list[k + 1] ELSE list[Len(list) + k + 1]

\* list[k] = val
Set(list, k, val) ==
    IF k >= 0 THEN [list EXCEPT ![k + 1] = val]
    ELSE [list EXCEPT ![Len(list) + k + 1] = val]

\* ------------------------------------------------------------- sorted(self.graph, key=item[2])
\* Python's sorted is stable: an edge goes after every edge of weight <= its own
\* that came before it in the input.
RECURSIVE InsertByWeight(_, _)
InsertByWeight(list, item) ==
    IF list = <<>> THEN <<item>>
    ELSE IF list[Len(list)][3] <= item[3] THEN Append(list, item)
    ELSE Append(InsertByWeight(SubSeq(list, 1, Len(list) - 1), item), list[Len(list)])

\* the sort left out: the edges are taken in the caller's order
Unsorted(list) == list

RECURSIVE SortedByWeight(_)
SortedByWeight(list) ==
    IF list = <<>> THEN <<>>
    ELSE InsertByWeight(SortedByWeight(SubSeq(list, 1, Len(list) - 1)), list[Len(list)])

\* ------------------------------------------------------------- find
\* find(parent, k) raises IndexError (at parent[k])
RECURSIVE FindRaises(_, _)
FindRaises(p, k) ==
    IF ~InRange(p, k) THEN TRUE
    ELSE IF Get(p, k) = k THEN FALSE
    ELSE FindRaises(p, Get(p, k))

\* the value find(parent, k) returns
RECURSIVE Find(_, _)
Find(p, k) ==
    IF Get(p, k) = k THEN k
    ELSE Find(p, Get(p, k))

\* the parent list after find(parent, k): find assigns to no element of it
FindParent(p, k) == p

\* ------------------------------------------------------------- union
\* union whose equal-rank branch raises the rank but leaves out parent[yroot] = xroot
UnionNoLink(p, r, a, b) ==
    LET xroot == Find(p, a)
        yroot == Find(p, b)
    IN  IF Get(r, xroot) < Get(r, yroot)
            THEN [parent |-> Set(p, xroot, yroot), rank |-> r]
        ELSE IF Get(r, xroot) > Get(r, yroot)
            THEN [parent |-> Set(p, yroot, xroot), rank |-> r]
        ELSE [parent |-> p,
              rank   |-> Set(r, xroot, Get(r, xroot) + 1)]

\* union whose equal-rank branch leaves out rank[xroot] += 1
UnionNoRankBump(p, r, a, b) ==
    LET xroot == Find(p, a)
        yroot == Find(p, b)
    IN  IF Get(r, xroot) < Get(r, yroot)
            THEN [parent |-> Set(p, xroot, yroot), rank |-> r]
        ELSE IF Get(r, xroot) > Get(r, yroot)
            THEN [parent |-> Set(p, yroot, xroot), rank |-> r]
        ELSE [parent |-> Set(p, yroot, xroot), rank |-> r]

\* union(parent, rank, a, b): the lists parent and rank after the call
Union(p, r, a, b) ==
    LET xroot == Find(p, a)
        yroot == Find(p, b)
    IN  IF Get(r, xroot) < Get(r, yroot)
            THEN [parent |-> Set(p, xroot, yroot), rank |-> r]
        ELSE IF Get(r, xroot) > Get(r, yroot)
            THEN [parent |-> Set(p, yroot, xroot), rank |-> r]
        ELSE [parent |-> Set(p, yroot, xroot),
              rank   |-> Set(r, xroot, Get(r, xroot) + 1)]

\* ------------------------------------------------------------- kruskalMST, piecewise
\* parent.append(0) in place of parent.append(node)
MakeParentZero(n) == [k \in 1..n |-> 0]

\* for node in range(self.v): parent.append(node); rank.append(0)
MakeParent(n) == [k \in 1..n |-> k - 1]
MakeRank(n) == [k \in 1..n |-> 0]

\* while e < self.v
LoopCondOffByOne(ee, vv) == ee < vv

\* while e < self.v - 1
LoopCond(ee, vv) == ee < vv - 1

\* the cycle test left out
AcceptsAlways(a, b) == TRUE

\* if not x == y
Accepts(a, b) == ~(a = b)

\* minimum_cost += weight, over mst
RECURSIVE SumWeights(_)
SumWeights(list) ==
    IF list = <<>> THEN 0
    ELSE SumWeights(SubSeq(list, 1, Len(list) - 1)) + list[Len(list)][3]

\* ------------------------------------------------------------- actions
\* Graph(vertices) with vertices drawn from counts
InitWith(counts) ==
    /\ v \in counts
    /\ graph = <<>>
    /\ given = <<>>
    /\ pc = "build"
    /\ mst = <<>>
    /\ parent = <<>>
    /\ rank = <<>>
    /\ i = 0
    /\ e = 0
    /\ uvw = <<>>
    /\ x = 0
    /\ y = 0
    /\ minimum_cost = 0

\* add_edge(a, b, w)
add_edge(a, b, w) ==
    /\ pc = "build"
    /\ graph' = Append(graph, <<a, b, w>>)
    /\ given' = graph'
    /\ UNCHANGED <<v, pc, mst, parent, rank, i, e, uvw, x, y, minimum_cost>>

\* kruskalMST, from its entry to the first test of the while loop
kruskalMST_Begin ==
    /\ pc = "build"
    /\ mst' = <<>>
    /\ graph' = SortedByWeight(graph)
    /\ parent' = MakeParent(v)
    /\ rank' = MakeRank(v)
    /\ i' = 0
    /\ e' = 0
    /\ pc' = "loop"
    /\ UNCHANGED <<v, given, uvw, x, y, minimum_cost>>

\* one pass of the loop head: u, v, w = self.graph[i]; i += 1; x = find(u); y = find(v)
kruskalMST_Pick ==
    /\ pc = "loop"
    /\ LoopCond(e, v)
    /\ IF ~InRange(graph, i)
         THEN /\ pc' = "IndexError_graph"
              /\ UNCHANGED <<i, uvw, x, y, parent>>
         ELSE LET edge == Get(graph, i)
              IN  /\ uvw' = edge
                  /\ i' = i + 1
                  /\ IF FindRaises(parent, edge[1])
                       THEN /\ pc' = "IndexError_parent"
                            /\ UNCHANGED <<x, y, parent>>
                       ELSE /\ x' = Find(parent, edge[1])
                            /\ IF FindRaises(FindParent(parent, edge[1]), edge[2])
                                 THEN /\ pc' = "IndexError_parent"
                                      /\ parent' = FindParent(parent, edge[1])
                                      /\ UNCHANGED y
                                 ELSE /\ y' = Find(FindParent(parent, edge[1]), edge[2])
                                      /\ parent' = FindParent(FindParent(parent, edge[1]), edge[2])
                                      /\ pc' = "found"
    /\ UNCHANGED <<v, graph, given, mst, rank, e, minimum_cost>>

\* the rest of the loop body: if not x == y: e += 1; mst.append; union
kruskalMST_Decide ==
    /\ pc = "found"
    /\ IF Accepts(x, y)
         THEN /\ e' = e + 1
              /\ mst' = Append(mst, uvw)
              /\ parent' = Union(parent, rank, x, y).parent
              /\ rank' = Union(parent, rank, x, y).rank
         ELSE UNCHANGED <<e, mst, parent, rank>>
    /\ pc' = "loop"
    /\ UNCHANGED <<v, graph, given, i, uvw, x, y, minimum_cost>>

\* the loop condition fails: the cost is summed and the call returns
kruskalMST_Finish ==
    /\ pc = "loop"
    /\ ~LoopCond(e, v)
    /\ minimum_cost' = SumWeights(mst)
    /\ pc' = "done"
    /\ UNCHANGED <<v, graph, given, mst, parent, rank, i, e, uvw, x, y>>

kruskalMST ==
    \/ kruskalMST_Begin
    \/ kruskalMST_Pick
    \/ kruskalMST_Decide
    \/ kruskalMST_Finish

\* ------------------------------------------------------------- specifications
\* Spec: every endpoint is a vertex of the graph; self-loops, parallel edges and
\* both orders of the endpoints occur.
AddValidEdge ==
    /\ Len(graph) < MaxEdges
    /\ \E a \in 0..(v - 1), b \in 0..(v - 1), w \in Weights : add_edge(a, b, w)

Init == InitWith(0..MaxV)
Next == AddValidEdge \/ kruskalMST
Spec == Init /\ [][Next]_vars

\* SpecCycles: edge lists long enough to close a cycle on three vertices; edges are
\* given low endpoint first, parallel edges occur.
AddLowFirstEdge ==
    /\ Len(graph) < CycleEdges
    /\ \E a \in 0..(v - 1), b \in 0..(v - 1), w \in Weights : a < b /\ add_edge(a, b, w)

InitCycles == InitWith(0..MaxV)
NextCycles == AddLowFirstEdge \/ kruskalMST
SpecCycles == InitCycles /\ [][NextCycles]_vars

\* SpecAny: endpoints from -1 to v, so below, inside and above [0, v).
AddAnyEdge ==
    /\ Len(graph) < MaxEdges
    /\ \E a \in (-1)..v, b \in (-1)..v, w \in AnyWeights : add_edge(a, b, w)

InitAny == InitWith(0..AnyMaxV)
NextAny == AddAnyEdge \/ kruskalMST
SpecAny == InitAny /\ [][NextAny]_vars

\* SpecDeep: five vertices and four edges, enough for a union-find tree of height 2
\* and a find that walks it; edges are given low endpoint first.
AddDeepEdge ==
    /\ Len(graph) < DeepEdges
    /\ \E a \in 0..(v - 1), b \in 0..(v - 1), w \in DeepWeights : a < b /\ add_edge(a, b, w)

InitDeep == InitWith({DeepV})
NextDeep == AddDeepEdge \/ kruskalMST
SpecDeep == InitDeep /\ [][NextDeep]_vars

\* ------------------------------------------------------------- graphs, for the properties
\* An edge list L with a set S of positions in it stands for the graph of the edges L[k], k in S.
\* every endpoint of L is a vertex index of a graph with n vertices
ValidEdges(n, L) == \A k \in DOMAIN L : L[k][1] \in 0..(n - 1) /\ L[k][2] \in 0..(n - 1)

\* the vertices joined to those of R by a path of edges of S
RECURSIVE Grow(_, _, _)
Grow(L, S, R) ==
    LET N == R \cup {L[k][2] : k \in {j \in S : L[j][1] \in R}}
               \cup {L[k][1] : k \in {j \in S : L[j][2] \in R}}
    IN  IF N = R THEN R ELSE Grow(L, S, N)

Joined(L, S, a, b) == b \in Grow(L, S, {a})

\* the edges of S connect all of the vertices 0..n-1 (a graph needs a vertex to be connected)
ConnectedBy(n, L, S) == n >= 1 /\ \A a \in 0..(n - 1) : Joined(L, S, 0, a)

\* no edge of S closes a cycle: none is a self-loop, none joins two vertices the others join
Acyclic(L, S) ==
    \A k \in S : L[k][1] # L[k][2] /\ ~Joined(L, S \ {k}, L[k][1], L[k][2])

SpanningTree(n, L, S) ==
    /\ Cardinality(S) = n - 1
    /\ ConnectedBy(n, L, S)
    /\ Acyclic(L, S)

RECURSIVE WeightOf(_, _)
WeightOf(L, S) ==
    IF S = {} THEN 0
    ELSE LET k == CHOOSE j \in S : TRUE IN L[k][3] + WeightOf(L, S \ {k})

\* the call has ended, normally or with an exception
Ended == pc \notin {"build", "loop", "found"}

\* the vertex reached from a after at most n parent steps
RECURSIVE Climb(_, _, _)
Climb(p, a, n) ==
    IF n = 0 \/ ~InRange(p, a) THEN a
    ELSE IF Get(p, a) = a THEN a
    ELSE Climb(p, Get(p, a), n - 1)

\* the number of parent steps from a to its root in a forest
RECURSIVE Depth(_, _)
Depth(p, a) == IF Get(p, a) = a THEN 0 ELSE 1 + Depth(p, Get(p, a))

\* the vertices find(p, a) visits
RECURSIVE PathOf(_, _)
PathOf(p, a) == IF Get(p, a) = a THEN {a} ELSE {a} \cup PathOf(p, Get(p, a))

\* ------------------------------------------------------------- claims

\* C1: for a connected graph whose edges all lie within [0, v), kruskalMST ends
\* normally with exactly v-1 selected edges, which are edges of the graph, connect
\* all v vertices and contain no cycle.
C1_SpanningTree ==
    (Ended /\ ValidEdges(v, given) /\ ConnectedBy(v, given, DOMAIN given)) =>
        /\ pc = "done"
        /\ Len(mst) = v - 1
        /\ \A k \in DOMAIN mst : \E j \in DOMAIN given : mst[k] = given[j]
        /\ SpanningTree(v, mst, DOMAIN mst)

\* a connected graph on three vertices was finished after an edge was turned down
C1_Witness ==
    /\ pc = "done"
    /\ v = 3
    /\ ConnectedBy(v, given, DOMAIN given)
    /\ Len(mst) = 2
    /\ i = 3

\* C2: for a connected graph, whatever the signs of the weights, the total weight
\* kruskalMST computes is at most the weight of every spanning tree made of edges
\* of the graph.
C2_Optimal ==
    (pc = "done" /\ ValidEdges(v, given) /\ ConnectedBy(v, given, DOMAIN given)) =>
        \A S \in SUBSET (DOMAIN given) :
            SpanningTree(v, given, S) => minimum_cost <= WeightOf(given, S)

\* a graph with a negative weight, a repeated weight and a strictly heavier spanning tree
C2_Witness ==
    /\ pc = "done"
    /\ v = 3
    /\ ConnectedBy(v, given, DOMAIN given)
    /\ \E k \in DOMAIN given : given[k][3] < 0
    /\ \E j, k \in DOMAIN given : j # k /\ given[j][3] = given[k][3]
    /\ \E S \in SUBSET (DOMAIN given) :
          SpanningTree(v, given, S) /\ minimum_cost < WeightOf(given, S)

\* C3: on a disconnected graph with v >= 2 the call ends in the outcome
\* DisconnectedGraph, and never reads self.graph past its end.
C3_DisconnectedReported ==
    (v >= 2 /\ ValidEdges(v, given) /\ ~ConnectedBy(v, given, DOMAIN given)) =>
        /\ pc # "IndexError_graph"
        /\ Ended => pc = "DisconnectedGraph"

\* C4: a graph with an endpoint outside [0, v) is rejected with the outcome
\* InvalidVertex before its edges are sorted and before parent or rank is indexed.
C4_InvalidVertexRejected ==
    (~ValidEdges(v, given) /\ pc # "build") =>
        /\ pc = "InvalidVertex"
        /\ graph = given

\* C5: after the call the graph's edge list holds the same edges in the same order
\* as before the call.
C5_GraphUnchanged == Ended => graph = given

\* C6: with v = 0 or v = 1 and any edge list, the call examines no edge, selects
\* none, raises nothing and ends with total weight 0.
C6_Degenerate ==
    (v <= 1 /\ pc # "build") =>
        /\ pc \in {"loop", "done"}
        /\ pc = "loop" => ENABLED kruskalMST_Finish
        /\ i = 0
        /\ e = 0
        /\ mst = <<>>
        /\ pc = "done" => minimum_cost = 0

\* the call ended on a one-vertex graph whose edge list holds an out-of-range
\* endpoint and a nonzero weight
C6_Witness ==
    /\ pc = "done"
    /\ v = 1
    /\ ~ValidEdges(v, given)
    /\ \E k \in DOMAIN given : given[k][3] # 0

\* C7: no self-loop is ever appended to mst.
C7_NoSelfLoop == \A k \in DOMAIN mst : mst[k][1] # mst[k][2]

\* a self-loop lighter than every other edge was examined first, and an edge selected after it
C7_Witness ==
    /\ pc = "done"
    /\ Len(mst) >= 1
    /\ graph[1][1] = graph[1][2]
    /\ \A k \in DOMAIN graph : k # 1 => graph[1][3] < graph[k][3]

\* C8: find compresses the path: every vertex it visits that was 2 or more steps
\* from the root is strictly closer to the root after the call.
C8_PathCompression ==
    [][(pc = "loop" /\ pc' = "found") =>
          \A s \in {uvw'[1], uvw'[2]} : \A n \in PathOf(parent, s) :
              Depth(parent, n) >= 2 => Depth(parent', n) < Depth(parent, n)]_vars

\* C9: union is called only with two distinct roots x and y, and then links by
\* rank: the root of lower rank goes under the other, on equal ranks y goes under x
\* and rank[x] grows by 1; no other entry of parent or rank changes.
C9_UnionByRank ==
    [][(pc = "found" /\ (e' # e \/ parent' # parent \/ rank' # rank)) =>
          LET rx == Get(rank, x)
              ry == Get(rank, y)
              child == IF rx < ry THEN x ELSE y
              root == IF rx < ry THEN y ELSE x
          IN  /\ x # y
              /\ Get(parent, x) = x
              /\ Get(parent, y) = y
              /\ Len(parent') = v
              /\ Len(rank') = v
              /\ \A k \in 0..(v - 1) :
                    /\ Get(parent', k) = IF k = child THEN root ELSE Get(parent, k)
                    /\ Get(rank', k) = IF rx = ry /\ k = x THEN rx + 1 ELSE Get(rank, k)]_vars

\* the second selected edge joined a lone vertex, its first endpoint, to a tree of
\* rank 1: the case rank[x] < rank[y], after union
C9_Witness ==
    /\ pc = "loop"
    /\ Len(mst) = 2
    /\ mst[2][1] \notin {mst[1][1], mst[1][2]}
    /\ mst[2][2] \in {mst[1][1], mst[1][2]}
    /\ Get(parent, mst[2][1]) # mst[2][1]
    /\ Get(rank, Get(parent, mst[2][1])) = 1
    /\ Get(rank, mst[2][1]) = 0

\* C10: at the head of the loop parent is a forest over 0..v-1, two vertices have
\* the same root exactly when edges of mst join them, and the number of roots is
\* v minus the number of selected edges.
C10_ForestAgreesWithMst ==
    pc = "loop" =>
        /\ Len(parent) = v
        /\ \A a \in 0..(v - 1) :
              /\ Get(parent, a) \in 0..(v - 1)
              /\ Get(parent, Climb(parent, a, v)) = Climb(parent, a, v)
        /\ \A a, b \in 0..(v - 1) :
              (Climb(parent, a, v) = Climb(parent, b, v)) <=> Joined(mst, DOMAIN mst, a, b)
        /\ Cardinality({a \in 0..(v - 1) : Get(parent, a) = a}) = v - Len(mst)

\* the loop is about to run again after one edge was selected and one turned down
C10_Witness ==
    /\ pc = "loop"
    /\ LoopCond(e, v)
    /\ Len(mst) = 1
    /\ i = 2

====
